---- MODULE Spec2Model ----
(***************************************************************************)
(* A model of the AI call survey agent: the two Flask programs of the      *)
(* repository, src/server.py and src/forUI.py.  Each program serves the    *)
(* telephony webhooks /voice and /gather over an in-memory conversation    *)
(* map and runs a cron that polls the "scheduledCalls" collection and      *)
(* places the due calls.                                                   *)
(*                                                                         *)
(* app is the program that is deployed.  The webhook side of the model is  *)
(* one process of that program whose requests are served by concurrent     *)
(* worker threads (Flask's app.run is threaded); the cron side is a set of *)
(* dispatcher instances of that program sharing the task collection.       *)
(*                                                                         *)
(* A text is a sequence of chunks; the chunk " " is white space, which is  *)
(* what str.strip() removes at both ends.  An ISO timestamp is the pair of *)
(* its second and the rank of the suffix that follows the seconds, and is  *)
(* compared the way Firestore compares two strings.                        *)
(***************************************************************************)
EXTENDS Integers, Sequences, FiniteSets, TLC

\* ------------------------------------------------------------------ bounds
NumWorkers == 2
MaxTurns == 6
MaxOverlap == 2
NumDispatchers == 2
MaxTasks == 2
MaxTime == 1
MaxFaults == 1

\* ------------------------------------------------------- program constants
HistoryWindow == 10

Programs == {"server", "forUI"}
CallSids == {"CA1", "CA2"}
Workers == 1..NumWorkers
Dispatchers == 1..NumDispatchers

\* ------------------------------------------------------------------- texts
SP == " "
SpeechResults == {<<>>, <<SP>>, <<SP, "yes">>}
Completions == {<<"Okay.", SP>>}

SystemPrompt(a) ==
    IF a = "server" THEN <<"You are ARJUN">> ELSE <<"You are Arjun">>

Fallback(a) ==
    IF a = "server"
    THEN <<"Sorry, I am having trouble right now. We will contact you again later.">>
    ELSE <<"Sorry, I am facing a technical issue right now.">>

RECURSIVE LStrip(_)
LStrip(s) == IF s # <<>> /\ Head(s) = SP THEN LStrip(Tail(s)) ELSE s

RECURSIVE RStrip(_)
RStrip(s) ==
    IF s # <<>> /\ s[Len(s)] = SP THEN RStrip(SubSeq(s, 1, Len(s) - 1)) ELSE s

\* the text as it is, white space included
NoStrip(s) == s

Strip(s) == RStrip(LStrip(s))

\* -------------------------------------------------------------- timestamps
\* What follows "YYYY-MM-DDTHH:MM:SS" in a timestamp, and its place in the
\* order of strings: the end of the string, then "+" < "." < "Z".
Suffixes == {"", "+00:00", ".000Z", "Z"}
SuffixRank(x) ==
    CASE x = "" -> 0 [] x = "+00:00" -> 1 [] x = ".000Z" -> 2 [] x = "Z" -> 3

Iso(sec, suffix) == [sec |-> sec, suffix |-> suffix]

\* a <= b on strings
StrLeq(a, b) ==
    \/ a.sec < b.sec
    \/ a.sec = b.sec /\ SuffixRank(a.suffix) <= SuffixRank(b.suffix)

\* now_iso: utcnow().isoformat() + "Z" (server.py 231), and
\* utcnow().replace(tzinfo=UTC).isoformat(timespec="seconds") (forUI.py 207)
NowIso(a, t) == IF a = "server" THEN Iso(t, "Z") ELSE Iso(t, "+00:00")

\* ------------------------------------------------------------------- turns
Turn(r, c) == [role |-> r, content |-> c]
SystemTurn(a) == Turn("system", SystemPrompt(a))

\* lst[-n:]
LastN(lst, n) ==
    IF Len(lst) <= n THEN lst ELSE SubSeq(lst, Len(lst) - n + 1, Len(lst))

\* ------------------------------------------------------------------- TwiML
Say(t) == [verb |-> "Say", arg |-> t]
Gather(t) == [verb |-> "Gather", arg |-> t]
Redirect(u) == [verb |-> "Redirect", arg |-> <<u>>]
Pause == [verb |-> "Pause", arg |-> <<>>]

Ok(doc) == [status |-> 200, body |-> doc]
ServerError == [status |-> 500, body |-> <<>>]
NoResponse == [status |-> 0, body |-> <<>>]

VoiceTwiml(a) ==
    IF a = "server"
    THEN <<Pause,
           Gather(<<"Hello, this is Arjun from customer support.">>),
           Say(<<"I did not hear anything. Let me try once more.">>),
           Redirect("/voice")>>
    ELSE <<Gather(<<"Hello! This is Arjun from customer care.">>),
           Say(<<"I didn't hear anything. Goodbye.">>)>>

SilenceTwiml(a) ==
    IF a = "server"
    THEN <<Say(<<"I did not catch that. Please say it again.">>),
           Redirect("/voice")>>
    ELSE <<Say(<<"Sorry, I didn't catch that. Let's try again.">>),
           Gather(<<"Could you repeat that?">>)>>

ReplyTwiml(a, reply) ==
    IF a = "server"
    THEN <<Gather(reply),
           Say(<<"I did not hear anything. I will end this call now.">>)>>
    ELSE <<Gather(reply),
           Say(<<"I did not hear anything. Goodbye.">>)>>

\* ------------------------------------------------------------------- state
VARIABLES
    app,            \* the program that runs: "server" or "forUI"
    conversations,  \* call sid -> history, the in-memory conversation map
    handlers,       \* worker -> the /gather request it is serving
    turns,          \* the non-empty speech results accepted so far
    lastReq,        \* the request answered last
    lastResp,       \* the response returned to lastReq
    now,            \* the wall clock, in seconds
    tasks,          \* the "scheduledCalls" collection: task id -> document
    cron,           \* dispatcher -> where its poll cycle stands
    placed,         \* task id -> the outbound calls the provider accepted
    faults,         \* the failures of collaborators and crashes so far
    apiResp         \* the status of the last /api/schedule response

sessionVars == <<conversations, handlers, turns, lastReq, lastResp>>

dispatchVars == <<now, tasks, cron, placed, faults, apiResp>>

vars == <<app, sessionVars, dispatchVars>>

Idle ==
    [pc |-> "idle", sid |-> "", text |-> <<>>, reply |-> <<>>, failed |-> FALSE]

NoRequest == [kind |-> "none", sid |-> "", text |-> <<>>]
Request(k, sid, text) == [kind |-> k, sid |-> sid, text |-> text]

\* some request is being served
Busy == \E w \in Workers : handlers[w].pc # "idle"

Sleeping == [pc |-> "sleep", docs |-> {}, doc |-> 0]

Known(sid) == sid \in DOMAIN conversations

\* conversations = {sid: h}: the map is replaced, not updated
PutAlone(sid, h) == [s \in {sid} |-> h]

\* conversations[sid] = h
Put(sid, h) ==
    [s \in DOMAIN conversations \cup {sid} |->
        IF s = sid THEN h ELSE conversations[s]]

Answer(req, resp) ==
    /\ lastReq' = req
    /\ lastResp' = resp

Init ==
    /\ app \in Programs
    /\ conversations = <<>>
    /\ handlers = [w \in Workers |-> Idle]
    /\ turns = 0
    /\ lastReq = NoRequest
    /\ lastResp = NoResponse
    /\ now = 0
    /\ tasks = <<>>
    /\ cron = [d \in Dispatchers |-> Sleeping]
    /\ placed = <<>>
    /\ faults = 0
    /\ apiResp = 0

\* ---------------------------------------------------------------- webhooks
\* /voice without the "not in conversations" test: every call-started event
\* starts the history again
VoiceReinit(sid) ==
    /\ conversations' = Put(sid, <<SystemTurn(app)>>)
    /\ Answer(Request("voice", sid, <<>>), Ok(VoiceTwiml(app)))
    /\ UNCHANGED <<app, handlers, turns, dispatchVars>>

\* POST /voice
Voice(sid) ==
    /\ conversations' =
          IF Known(sid) THEN conversations ELSE Put(sid, <<SystemTurn(app)>>)
    /\ Answer(Request("voice", sid, <<>>), Ok(VoiceTwiml(app)))
    /\ UNCHANGED <<app, handlers, turns, dispatchVars>>

\* POST /gather whose SpeechResult is empty once stripped
GatherSilence(sid, text) ==
    /\ Strip(text) = <<>>
    /\ Answer(Request("gather", sid, text), Ok(SilenceTwiml(app)))
    /\ UNCHANGED <<app, conversations, handlers, turns, dispatchVars>>

\* POST /gather with speech: the user turn is stored (server.py 98-101,
\* forUI.py 144), then the handler waits for the completion.
GatherStart(w, sid, text, dup) ==
    /\ handlers[w].pc = "idle"
    /\ \A v \in Workers : v < w => handlers[v].pc # "idle"
    /\ Strip(text) # <<>>
    /\ turns < MaxTurns
    /\ Busy => turns < MaxOverlap
    /\ dup => lastReq = Request("gather", sid, text)
    /\ turns' = turns + 1
    /\ IF app = "server"
       THEN /\ conversations' =
                  Put(sid, Append(IF Known(sid) THEN conversations[sid]
                                  ELSE <<SystemTurn(app)>>,
                                  Turn("user", text)))
            /\ handlers' = [handlers EXCEPT ![w] =
                  [Idle EXCEPT !.pc = "llm", !.sid = sid, !.text = text]]
            /\ UNCHANGED <<lastReq, lastResp>>
       ELSE IF Known(sid)
       THEN /\ conversations' =
                  Put(sid, Append(conversations[sid], Turn("user", Strip(text))))
            /\ handlers' = [handlers EXCEPT ![w] =
                  [Idle EXCEPT !.pc = "llm", !.sid = sid, !.text = text]]
            /\ UNCHANGED <<lastReq, lastResp>>
       ELSE \* KeyError: conversations[call_sid] of an unseen call sid
            /\ Answer(Request("gather", sid, text), ServerError)
            /\ UNCHANGED <<conversations, handlers>>
    /\ UNCHANGED <<app, dispatchVars>>

\* groq chat.completions.create returns, or raises and the fallback is taken
LlmReply(a, completion) ==
    IF a = "server" THEN Strip(completion) ELSE completion

LlmCall(w, completion, raised) ==
    /\ handlers[w].pc = "llm"
    /\ handlers' = [handlers EXCEPT ![w] =
          [@ EXCEPT !.pc = "store",
                    !.failed = raised,
                    !.reply = IF raised THEN Fallback(app)
                              ELSE LlmReply(app, completion)]]
    /\ UNCHANGED <<app, conversations, turns, lastReq, lastResp, dispatchVars>>

\* the assistant turn a handler stores once the completion is back:
\* server.py stores the reply or the fallback (116), forUI.py stores inside
\* the try block, so only a reply (156-159)
StoresReply(a, failed) == a = "server" \/ ~failed

Store(w) ==
    /\ handlers[w].pc = "store"
    /\ conversations' =
          IF StoresReply(app, handlers[w].failed)
          THEN Put(handlers[w].sid,
                   Append(conversations[handlers[w].sid],
                          Turn("assistant", handlers[w].reply)))
          ELSE conversations
    /\ handlers' = [handlers EXCEPT ![w].pc =
          IF app = "server" THEN "trim" ELSE "respond"]
    /\ UNCHANGED <<app, turns, lastReq, lastResp, dispatchVars>>

\* conversations[call_sid] = conversations[call_sid][-10:]  (server.py 117)
Trimmed(h) == LastN(h, HistoryWindow)

Trim(w) ==
    /\ handlers[w].pc = "trim"
    /\ conversations' =
          Put(handlers[w].sid, Trimmed(conversations[handlers[w].sid]))
    /\ handlers' = [handlers EXCEPT ![w].pc = "respond"]
    /\ UNCHANGED <<app, turns, lastReq, lastResp, dispatchVars>>

Respond(w) ==
    /\ handlers[w].pc = "respond"
    /\ Answer(Request("gather", handlers[w].sid, handlers[w].text),
              Ok(ReplyTwiml(app, handlers[w].reply)))
    /\ handlers' = [handlers EXCEPT ![w] = Idle]
    /\ UNCHANGED <<app, conversations, turns, dispatchVars>>

\* the webhooks served by the worker threads W
Webhooks(W) ==
    \/ \E sid \in CallSids : Voice(sid)
    \/ \E sid \in CallSids, text \in SpeechResults : GatherSilence(sid, text)
    \/ \E w \in W, sid \in CallSids, text \in SpeechResults, dup \in BOOLEAN :
          GatherStart(w, sid, text, dup)
    \/ \E w \in W, c \in Completions, raised \in BOOLEAN : LlmCall(w, c, raised)
    \/ \E w \in W : Store(w)
    \/ \E w \in W : Trim(w)
    \/ \E w \in W : Respond(w)

SessionNext == Webhooks(Workers)

SerialNext == Webhooks({1})

\* -------------------------------------------------------------- scheduling
Phones == {"", "+15551234567"}
MissingAt == Iso(-1, "")
ScheduledAts == {MissingAt} \cup {Iso(t, x) : t \in 0..MaxTime, x \in {".000Z", "Z"}}

Task(phone, at) == [phoneNumber |-> phone, scheduledAt |-> at, status |-> "pending"]

\* /api/schedule that tests the phone alone
ApiScheduleAnyAt(phone, at) ==
    /\ IF phone = ""
       THEN /\ apiResp' = 400
            /\ UNCHANGED <<tasks, placed>>
       ELSE /\ Len(tasks) < MaxTasks
            /\ tasks' = Append(tasks, Task(phone, at))
            /\ placed' = Append(placed, 0)
            /\ apiResp' = 200
    /\ UNCHANGED <<app, sessionVars, now, cron, faults>>

\* POST /api/schedule
ApiSchedule(phone, at) ==
    /\ IF phone = "" \/ at = MissingAt
       THEN /\ apiResp' = 400
            /\ UNCHANGED <<tasks, placed>>
       ELSE /\ Len(tasks) < MaxTasks
            /\ tasks' = Append(tasks, Task(phone, at))
            /\ placed' = Append(placed, 0)
            /\ apiResp' = 200
    /\ UNCHANGED <<app, sessionVars, now, cron, faults>>

Tick ==
    /\ now < MaxTime
    /\ now' = now + 1
    /\ UNCHANGED <<app, sessionVars, tasks, cron, placed, faults, apiResp>>

\* the query without its status filter
DueAnyStatus(doc, nowIso) == StrLeq(doc.scheduledAt, nowIso)

\* .where("status", "==", "pending").where("scheduledAt", "<=", now_iso)
Due(doc, nowIso) == doc.status = "pending" /\ StrLeq(doc.scheduledAt, nowIso)

QueryDue(nowIso) == {t \in DOMAIN tasks : Due(tasks[t], nowIso)}

Fault == faults < MaxFaults /\ faults' = faults + 1

\* a poll cycle whose failed query is not caught: the exception ends the
\* dispatcher
PollDies(d, ok) ==
    /\ cron[d].pc = "sleep"
    /\ IF ok
       THEN /\ cron' = [cron EXCEPT ![d] =
                  IF QueryDue(NowIso(app, now)) = {} THEN Sleeping
                  ELSE [pc |-> "loop", docs |-> QueryDue(NowIso(app, now)), doc |-> 0]]
            /\ UNCHANGED faults
       ELSE /\ Fault
            /\ cron' = [cron EXCEPT ![d] = [pc |-> "dead", docs |-> {}, doc |-> 0]]
    /\ UNCHANGED <<app, sessionVars, now, tasks, placed, apiResp>>

\* the start of a poll cycle: the query for the due tasks
Poll(d, ok) ==
    /\ cron[d].pc = "sleep"
    /\ IF ok
       THEN /\ cron' = [cron EXCEPT ![d] =
                  IF QueryDue(NowIso(app, now)) = {} THEN Sleeping
                  ELSE [pc |-> "loop", docs |-> QueryDue(NowIso(app, now)), doc |-> 0]]
            /\ UNCHANGED faults
       ELSE /\ Fault
            /\ UNCHANGED cron
    /\ UNCHANGED <<app, sessionVars, now, tasks, placed, apiResp>>

\* make_call swallows every failure in server.py (212-222); in forUI.py a
\* response with an error status is printed (194-195) and only a failure to
\* reach the provider raises, which ends the cycle (235)
CallRaises(a, outcome) == a = "forUI" /\ outcome = "unreachable"

\* the for loop moves to the next document, or the cycle is over
AfterDoc(c) ==
    IF c.docs = {} THEN Sleeping ELSE [pc |-> "loop", docs |-> c.docs, doc |-> 0]

\* "if phone:" of server.py 247; forUI.py calls whatever the document holds
Callable(a, doc) == a = "forUI" \/ doc.phoneNumber # ""

\* make_call(phone) for the next document of the cycle; the documents of a
\* query come in the order of the store, which the code does not choose
MakeCall(d, t, outcome) ==
    /\ cron[d].pc = "loop"
    /\ t \in cron[d].docs
    /\ IF ~Callable(app, tasks[t])
       THEN /\ outcome = "ok"
            /\ cron' = [cron EXCEPT ![d] =
                  AfterDoc([cron[d] EXCEPT !.docs = @ \ {t}])]
            /\ UNCHANGED <<placed, faults>>
       ELSE /\ IF outcome = "ok"
               THEN /\ placed' = [placed EXCEPT ![t] = @ + 1]
                    /\ UNCHANGED faults
               ELSE /\ Fault
                    /\ UNCHANGED placed
            /\ cron' = [cron EXCEPT ![d] =
                  IF CallRaises(app, outcome) THEN Sleeping
                  ELSE [pc |-> "update", docs |-> cron[d].docs \ {t}, doc |-> t]]
    /\ UNCHANGED <<app, sessionVars, now, tasks, apiResp>>

\* update({"status": "processed"}) of the document just called
Update(d, ok) ==
    /\ cron[d].pc = "update"
    /\ IF ok
       THEN /\ tasks' = [tasks EXCEPT ![cron[d].doc].status = "processed"]
            /\ cron' = [cron EXCEPT ![d] = AfterDoc(cron[d])]
            /\ UNCHANGED faults
       ELSE /\ Fault
            /\ cron' = [cron EXCEPT ![d] = Sleeping]
            /\ UNCHANGED tasks
    /\ UNCHANGED <<app, sessionVars, now, placed, apiResp>>

\* the process dies in the middle of a cycle and is started again
Crash(d) ==
    /\ cron[d].pc # "sleep"
    /\ Fault
    /\ cron' = [cron EXCEPT ![d] = Sleeping]
    /\ UNCHANGED <<app, sessionVars, now, tasks, placed, apiResp>>

Outcomes == {"ok", "rejected", "unreachable"}

Dispatcher(d) ==
    \/ \E ok \in BOOLEAN : Poll(d, ok)
    \/ \E t \in DOMAIN tasks, outcome \in Outcomes : MakeCall(d, t, outcome)
    \/ \E ok \in BOOLEAN : Update(d, ok)
    \/ Crash(d)

Admin ==
    \/ \E phone \in Phones, at \in ScheduledAts : ApiSchedule(phone, at)
    \/ Tick

DispatchNext == Admin \/ \E d \in Dispatchers : Dispatcher(d)

SingleNext == Admin \/ Dispatcher(1)

Next == SessionNext \/ DispatchNext

\* the webhooks alone
SpecSession == Init /\ [][SessionNext]_vars

\* the webhooks served one request at a time
SpecSerial == Init /\ [][SerialNext]_vars

\* the dispatcher instances over one task collection
SpecDispatch == Init /\ [][DispatchNext]_vars

\* one dispatcher instance
SpecSingle == Init /\ [][SingleNext]_vars

\* one dispatcher instance that keeps running: the loop of cron_job and the
\* interval job of the scheduler start a cycle again and again, and a step
\* of a cycle whose collaborator answers is taken
CronFairness ==
    /\ WF_vars(Poll(1, TRUE))
    /\ WF_vars(\E t \in DOMAIN tasks : MakeCall(1, t, "ok"))
    /\ WF_vars(Update(1, TRUE))

SpecSingleLive == Init /\ [][SingleNext]_vars /\ CronFairness

Spec == Init /\ [][Next]_vars

\* ------------------------------------------------------------------ claims
History(sid) == conversations[sid]

\* a response document that keeps the call going: it listens, or it sends
\* the call back to /voice, which listens
Listens(doc) == \E i \in DOMAIN doc : doc[i].verb \in {"Gather", "Redirect"}

\* a response document that speaks text t
Speaks(doc, t) == \E i \in DOMAIN doc : doc[i].verb \in {"Say", "Gather"} /\ doc[i].arg = t

Silent(req) == req.kind = "gather" /\ Strip(req.text) = <<>>

\* C1: with no failure and no crash at all, at most one outbound call is
\* ever placed for a task, whatever the number of dispatcher instances
\* polling at once.
C1_OneCallPerTask ==
    faults = 0 => \A t \in DOMAIN placed : placed[t] <= 1

\* C2: the first element of every stored history is the system turn.
C2_SystemTurnFirst ==
    \A sid \in DOMAIN conversations : History(sid)[1].role = "system"

\* C3: a silent speech result that follows a silent speech result of the
\* same started call is answered with a directive that no longer listens.
C3_SecondSilenceEnds ==
    [][\A sid \in CallSids, text \in SpeechResults :
          (/\ Known(sid)
           /\ Silent(lastReq) /\ lastReq.sid = sid
           /\ GatherSilence(sid, text))
          => ~Listens(lastResp'.body)]_vars

\* C4: a pending task whose scheduledAt is in the past is returned by the
\* due-task query; a processed task is returned by no due-task query, and
\* no step of the single dispatcher places a call for it or changes it.
C4_RoundTrip ==
    /\ [](\A t \in DOMAIN tasks :
             tasks[t].status = "pending" /\ tasks[t].scheduledAt.sec < now
             => t \in QueryDue(NowIso(app, now)))
    /\ [](\A t \in DOMAIN tasks :
             tasks[t].status = "processed"
             => \A n \in 0..MaxTime : t \notin QueryDue(NowIso(app, n)))
    /\ [][\A t \in DOMAIN tasks :
             tasks[t].status = "processed"
             => placed'[t] = placed[t] /\ tasks'[t] = tasks[t]]_vars

\* a task was due and pending, one cycle called it once and marked it, and
\* the dispatcher is at rest again while the task is still past due
C4_Witness ==
    \E t \in DOMAIN tasks :
        /\ tasks[t].status = "processed"
        /\ placed[t] = 1
        /\ tasks[t].scheduledAt.sec < now
        /\ cron[1].pc = "sleep"
        /\ faults = 0

\* C5: once a speech result has been answered with the fallback text and
\* no request is being served, the answer listens and the history ends with
\* the user turn followed by the fallback as the assistant turn.
C5_FallbackStored ==
    (/\ ~Busy
     /\ lastReq.kind = "gather" /\ ~Silent(lastReq)
     /\ lastResp.status = 200
     /\ Speaks(lastResp.body, Fallback(app)))
    => /\ Listens(lastResp.body)
       /\ LET h == History(lastReq.sid) IN
          /\ Len(h) >= 2
          /\ h[Len(h)] = Turn("assistant", Fallback(app))
          /\ h[Len(h) - 1].role = "user"

C7_OneCallDespiteCrash ==
    \A t \in DOMAIN placed : placed[t] <= 1

\* C8: a task is processed only if a call trigger for it succeeded.
C8_ProcessedOnlyIfCalled ==
    \A t \in DOMAIN tasks : tasks[t].status = "processed" => placed[t] >= 1

\* C9: in server.py, which stores an assistant turn for every user turn,
\* once no request is being served every user turn of a history is directly
\* followed by an assistant turn.
C9_TurnsSerialized ==
    (app = "server" /\ ~Busy)
    => \A sid \in DOMAIN conversations :
          \A i \in DOMAIN History(sid) :
             History(sid)[i].role = "user"
             => i < Len(History(sid)) /\ History(sid)[i + 1].role = "assistant"

\* C10: the delivery again of the speech result answered last adds no turn
\* to the history.
C10_RedeliveryAddsNoTurn ==
    [][\A w \in Workers, sid \in CallSids, text \in SpeechResults :
          GatherStart(w, sid, text, TRUE) => conversations' = conversations]_vars

\* C11: once no request is being served, no stored history is longer than
\* the fixed maximum of 10 turns.
C11_HistoryCapped ==
    ~Busy => \A sid \in DOMAIN conversations : Len(History(sid)) <= HistoryWindow

\* C12: every user turn of a stored history has a turn before it, and that
\* turn is the system turn or an assistant turn.
C12_UserFollowsReply ==
    \A sid \in DOMAIN conversations :
       \A i \in DOMAIN History(sid) :
          History(sid)[i].role = "user"
          => i > 1 /\ History(sid)[i - 1].role \in {"system", "assistant"}

\* C13: a schedule request without phone or without scheduledAt is answered
\* 400 and leaves the collection as it is; any other schedule request is
\* answered with success and adds one document, which holds the phone and
\* the scheduledAt of the request and the status pending.  In every state
\* each document of the collection has a phone and a scheduledAt.
C13_ScheduleValidates ==
    /\ [](\A t \in DOMAIN tasks :
             tasks[t].phoneNumber # "" /\ tasks[t].scheduledAt # MissingAt)
    /\ [][\A phone \in Phones, at \in ScheduledAts :
             ApiSchedule(phone, at)
             => IF phone = "" \/ at = MissingAt
                THEN apiResp' = 400 /\ tasks' = tasks
                ELSE /\ apiResp' = 200
                     /\ Len(tasks') = Len(tasks) + 1
                     /\ SubSeq(tasks', 1, Len(tasks)) = tasks
                     /\ tasks'[Len(tasks')] =
                           [phoneNumber |-> phone, scheduledAt |-> at,
                            status |-> "pending"]]_vars

\* a request was refused after another had created a task
C13_Witness ==
    /\ apiResp = 400
    /\ Len(tasks) = 1
    /\ tasks[1].status = "pending"

\* white space alone, or nothing
Blank(t) == \A i \in DOMAIN t : t[i] = SP

\* C14: the answer to a speech result with text is a document that listens
\* again and speaks a reply in its listening verb.
C14_SpeechKeepsListening ==
    (lastReq.kind = "gather" /\ ~Blank(lastReq.text))
    => /\ lastResp.status = 200
       /\ Listens(lastResp.body)
       /\ \E i \in DOMAIN lastResp.body :
             lastResp.body[i].verb = "Gather" /\ lastResp.body[i].arg # <<>>

\* C15: no request with a blank speech result is handed to the reply
\* generator, no user turn of a history is blank, and the step that answers
\* a blank speech result changes no history, starts no handler and counts
\* no turn.
C15_SilenceLeavesHistory ==
    /\ [](/\ \A w \in Workers :
                handlers[w].pc # "idle" => ~Blank(handlers[w].text)
          /\ \A sid \in DOMAIN conversations :
                \A i \in DOMAIN History(sid) :
                   History(sid)[i].role = "user" => ~Blank(History(sid)[i].content))
    /\ [][\A sid \in CallSids, text \in SpeechResults :
             (Blank(text) /\ GatherSilence(sid, text))
             => /\ conversations' = conversations
                /\ handlers' = handlers
                /\ turns' = turns]_vars

\* a speech result of white space alone was answered for a call whose
\* history holds a user turn and its reply
C15_Witness ==
    /\ ~Busy
    /\ lastReq.kind = "gather" /\ lastReq.text = <<SP>>
    /\ Known(lastReq.sid)
    /\ Len(History(lastReq.sid)) >= 3

\* C16: a speech result with text for a call sid that has no history yet is
\* not answered with an error, and the step leaves the call with a history
\* that starts with the system turn and ends with the user turn.
C16_LazySession ==
    [][\A w \in Workers, sid \in CallSids, text \in SpeechResults :
          (~Known(sid) /\ GatherStart(w, sid, text, FALSE))
          => /\ lastResp'.status # 500
             /\ sid \in DOMAIN conversations'
             /\ conversations'[sid][1].role = "system"
             /\ conversations'[sid][2].role = "user"]_vars

\* C17: a call trigger or a status update of a poll cycle, whether it fails
\* or not, ends the cycle only when no other document read in the cycle is
\* left to call.
C17_TasksIndependent ==
    [][\A d \in Dispatchers :
          /\ \A t \in DOMAIN tasks, outcome \in Outcomes :
                (MakeCall(d, t, outcome) /\ cron'[d].pc = "sleep")
                => cron[d].docs = {t}
          /\ \A ok \in BOOLEAN :
                (Update(d, ok) /\ cron'[d].pc = "sleep")
                => cron[d].docs = {}]_vars

\* C19: a task that becomes processed was claimed in the state before, the
\* status of a task changes only from pending to claimed and from claimed
\* to processed, and a call is placed only for a task whose stored status
\* is pending.
C19_StatusMonotonic ==
    [][\A t \in DOMAIN tasks :
          /\ (tasks'[t].status = "processed" /\ tasks[t].status # "processed")
             => tasks[t].status = "claimed"
          /\ tasks'[t].status # tasks[t].status
             => <<tasks[t].status, tasks'[t].status>> \in
                   {<<"pending", "claimed">>, <<"claimed", "processed">>}
          /\ placed'[t] # placed[t] => tasks[t].status = "pending"]_vars

\* C20: no step of a webhook handler removes a call sid from the
\* conversation map.
C20_SessionsOnlyGrow ==
    [][DOMAIN conversations \subseteq DOMAIN conversations']_vars

\* both calls have a history, one of them was answered a re-prompt for
\* silence after a turn and its reply were stored
C20_Witness ==
    /\ ~Busy
    /\ DOMAIN conversations = CallSids
    /\ lastReq.kind = "gather" /\ Blank(lastReq.text)
    /\ Len(History(lastReq.sid)) >= 3

====
